---------------------------- MODULE Spec2Model ----------------------------
(***************************************************************************)
(* Model of frontend/src/main.ts, the bootstrap module of the savage-aim   *)
(* single page application.  The module body is a straight line of         *)
(* statements executed once per page load: a flag flip, four Vue.use       *)
(* registrations, Sentry.init, the construction of the root Vue instance   *)
(* and its $mount.  Every statement calls into a library and may raise;    *)
(* the module has no try/catch, so a raise ends the module evaluation.     *)
(* After the bootstrap the mounted application runs: it changes routes on  *)
(* the router it was given and errors may occur, which the telemetry       *)
(* client configured here samples for replay capture.                      *)
(***************************************************************************)
EXTENDS Integers, Sequences, FiniteSets, TLC

(* ------------------------------ bounds -------------------------------- *)

\* Object identities the imported router and store may have.
NumObjects == 3
\* Route changes of the mounted application that are followed.
MaxNavs == 2
\* Errors of one session that are followed.
MaxErrors == 2
\* Math.random() is drawn from {0/DrawDen, ..., (DrawDen-1)/DrawDen}.
DrawDen == 4

ObjectIds == 1..NumObjects
Draws == 0..(DrawDen - 1)

(* ------------------------- static configuration ----------------------- *)

\* dynamicDefaults with another width and a key added.
dynamicDefaultsDraggable ==
  [ adaptive   |-> TRUE,
    classes    |-> "card",
    height     |-> "auto",
    width      |-> "600px",
    resizable  |-> FALSE,
    scrollable |-> TRUE,
    draggable  |-> TRUE,
    styles     |-> ("max-height" :> "80vh" @@ "overflow-y" :> "auto") ]

\* main.ts 12-23
dynamicDefaults ==
  [ adaptive   |-> TRUE,
    classes    |-> "card",
    height     |-> "auto",
    width      |-> "800px",
    resizable  |-> FALSE,
    scrollable |-> TRUE,
    styles     |-> ("max-height" :> "80vh" @@ "overflow-y" :> "auto") ]

\* main.ts 31
dsn == "https://06f41b525a40497a848fb726f6d03244@o242258.ingest.sentry.io/6180221"

\* main.ts 32
logErrors == TRUE

\* A release tag whose date lost a digit: 'savageaim@2024716'.
releaseShortDate ==
  << "s", "a", "v", "a", "g", "e", "a", "i", "m", "@",
     "2", "0", "2", "4", "7", "1", "6" >>

\* main.ts 33: 'savageaim@20240716', one element per character.
release ==
  << "s", "a", "v", "a", "g", "e", "a", "i", "m", "@",
     "2", "0", "2", "4", "0", "7", "1", "6" >>

\* A rate written as a percentage: 50.
tracesSampleRatePercent == [ num |-> 50, den |-> 1 ]

\* main.ts 40: 0.5, as a fraction.
tracesSampleRate == [ num |-> 1, den |-> 2 ]

\* A session replay rate of 0.1.
replaysSessionSampleRateTenth == [ num |-> 1, den |-> 10 ]

\* main.ts 43: 0
replaysSessionSampleRate == [ num |-> 0, den |-> 1 ]

\* main.ts 44: 1
replaysOnErrorSampleRate == [ num |-> 1, den |-> 1 ]

\* main.ts 51
mountPoint == "#app"

\* The root is constructed and mounted before the last two registrations.
ProgramMountEarly ==
  << "productionTip", "useNotifications", "useVModal", "newVue", "mount",
     "useVueCookies", "useVueShortkey", "SentryInit" >>

\* VueCookies is registered before VModal, and once more after it.
ProgramCookiesTwice ==
  << "productionTip", "useNotifications", "useVueCookies", "useVModal",
     "useVueCookies", "useVueShortkey", "SentryInit", "newVue", "mount" >>

\* A registration is left behind the mount.
ProgramUseAfterMount ==
  << "productionTip", "useNotifications", "useVModal", "useVueCookies",
     "SentryInit", "newVue", "mount", "useVueShortkey" >>

\* The telemetry client is configured after the root is constructed.
ProgramSentryAfterRoot ==
  << "productionTip", "useNotifications", "useVModal", "useVueCookies",
     "useVueShortkey", "newVue", "SentryInit", "mount" >>

\* main.ts 11-51: the statements of the module body, in source order.
Program ==
  << "productionTip", "useNotifications", "useVModal", "useVueCookies",
     "useVueShortkey", "SentryInit", "newVue", "mount" >>

(* ------------------------------- state -------------------------------- *)

VARIABLES
  pc,             \* index in Program of the next statement
  status,         \* "running", "done" (module body finished), "failed" (raised)
  router,         \* identity of the object imported from './router'
  store,          \* identity of the object imported from './store'
  productionTip,  \* Vue.config.productionTip
  installed,      \* the Vue.use calls issued: <<[plugin, args]>>
  sentry,         \* the option records given to Sentry.init, one per call
  root,           \* the root instances constructed: <<[router, store, render]>>
  mounts,         \* the $mount calls issued: <<selector>>
  replayCaptured, \* the session's replay has been selected for capture
  errors,         \* errors that occurred in the telemetry session
  navigated       \* route changes of the mounted application: <<router id>>

vars ==
  << pc, status, router, store, productionTip, installed, sentry, root,
     mounts, replayCaptured, errors, navigated >>

bootVars == << pc, status, productionTip, installed, sentry, root, mounts >>

Init ==
  /\ pc = 1
  /\ status = "running"
  /\ router \in ObjectIds
  /\ store \in ObjectIds \ {router}
  /\ productionTip \in BOOLEAN
  /\ installed = << >>
  /\ sentry = << >>
  /\ root = << >>
  /\ mounts = << >>
  /\ replayCaptured = FALSE
  /\ errors = 0
  /\ navigated = << >>

(* ------------------------------ helpers ------------------------------- *)

\* The statement about to execute.
AtStatement(s) ==
  /\ status = "running"
  /\ pc <= Len(Program)
  /\ Program[pc] = s

\* Control passes to the next statement; the body is done after the last.
Advance ==
  /\ pc' = pc + 1
  /\ status' = IF pc + 1 > Len(Program) THEN "done" ELSE "running"

\* Vue.use(plugin, ...args)
VueUse(plugin, args) ==
  installed' = Append(installed, [ plugin |-> plugin, args |-> args ])

\* A sample rate decides a draw u = d/DrawDen of [0, 1): selected iff u < rate.
Sampled(rate, d) == d * rate.den < rate.num * DrawDen

\* The telemetry client sees an error of its session.
CaptureError(d) ==
  /\ errors' = IF errors < MaxErrors THEN errors + 1 ELSE errors
  /\ replayCaptured' =
       (replayCaptured \/ Sampled(sentry[Len(sentry)].replaysOnErrorSampleRate, d))

(* ------------------------------ actions ------------------------------- *)

\* main.ts 11
SetProductionTip ==
  /\ AtStatement("productionTip")
  /\ productionTip' = FALSE
  /\ Advance
  /\ UNCHANGED << router, store, installed, sentry, root, mounts,
                  replayCaptured, errors, navigated >>

\* main.ts 24
UseNotifications ==
  /\ AtStatement("useNotifications")
  /\ VueUse("Notifications", << >>)
  /\ Advance
  /\ UNCHANGED << router, store, productionTip, sentry, root, mounts,
                  replayCaptured, errors, navigated >>

\* main.ts 25
UseVModal ==
  /\ AtStatement("useVModal")
  /\ VueUse("VModal", << [ dynamicDefaults |-> dynamicDefaults ] >>)
  /\ Advance
  /\ UNCHANGED << router, store, productionTip, sentry, root, mounts,
                  replayCaptured, errors, navigated >>

\* main.ts 26
UseVueCookies ==
  /\ AtStatement("useVueCookies")
  /\ VueUse("VueCookies", << >>)
  /\ Advance
  /\ UNCHANGED << router, store, productionTip, sentry, root, mounts,
                  replayCaptured, errors, navigated >>

\* main.ts 27
UseVueShortkey ==
  /\ AtStatement("useVueShortkey")
  /\ VueUse("VueShortkey", << >>)
  /\ Advance
  /\ UNCHANGED << router, store, productionTip, sentry, root, mounts,
                  replayCaptured, errors, navigated >>

\* main.ts 29-45: the option record given to Sentry.init.
SentryOptions ==
  [ dsn                      |-> dsn,
    logErrors                |-> logErrors,
    release                  |-> release,
    integrations             |-> << "BrowserTracing", "Replay" >>,
    routingInstrumentation   |-> router,
    tracesSampleRate         |-> tracesSampleRate,
    replaysSessionSampleRate |-> replaysSessionSampleRate,
    replaysOnErrorSampleRate |-> replaysOnErrorSampleRate ]

\* main.ts 29-45.  The session starts with the client; its replay is selected
\* at once when the session draw falls under replaysSessionSampleRate.
SentryInit ==
  /\ AtStatement("SentryInit")
  /\ sentry' = Append(sentry, SentryOptions)
  /\ \E d \in Draws :
       replayCaptured' =
         (replayCaptured \/ Sampled(SentryOptions.replaysSessionSampleRate, d))
  /\ Advance
  /\ UNCHANGED << router, store, productionTip, installed, root, mounts,
                  errors, navigated >>

\* The root is given a router of its own, not the imported one.
RootOptionsOwnRouter ==
  [ render |-> "App",
    router |-> CHOOSE r \in ObjectIds : r # router /\ r # store,
    store  |-> store ]

\* main.ts 47-51: the options given to new Vue.
RootOptions == [ render |-> "App", router |-> router, store |-> store ]

\* main.ts 47-51: new Vue({...})
NewVue ==
  /\ AtStatement("newVue")
  /\ root' = Append(root, RootOptions)
  /\ Advance
  /\ UNCHANGED << router, store, productionTip, installed, sentry, mounts,
                  replayCaptured, errors, navigated >>

\* main.ts 51: .$mount('#app')
Mount ==
  /\ AtStatement("mount")
  /\ Len(root) > 0
  /\ mounts' = Append(mounts, mountPoint)
  /\ Advance
  /\ UNCHANGED << router, store, productionTip, installed, sentry, root,
                  replayCaptured, errors, navigated >>

\* The raise is caught and the module body goes on with the next statement.
ThrowSwallowed ==
  /\ status = "running"
  /\ pc <= Len(Program)
  /\ Advance
  /\ UNCHANGED << router, store, productionTip, installed, sentry, root,
                  mounts, replayCaptured, errors, navigated >>

\* main.ts 11-51: the statement about to execute raises.  Nothing catches it:
\* the module evaluation ends.  A configured telemetry client sees the
\* uncaught exception as an error of its session.
Throw ==
  /\ status = "running"
  /\ pc <= Len(Program)
  /\ status' = "failed"
  /\ IF Len(sentry) > 0
       THEN \E d \in Draws : CaptureError(d)
       ELSE UNCHANGED << errors, replayCaptured >>
  /\ UNCHANGED << pc, router, store, productionTip, installed, sentry, root,
                  mounts, navigated >>

\* The mounted application changes route, on the router its root was given.
Navigate ==
  /\ status = "done"
  /\ Len(mounts) > 0
  /\ Len(navigated) < MaxNavs
  /\ navigated' = Append(navigated, root[Len(root)].router)
  /\ UNCHANGED << pc, status, router, store, productionTip, installed, sentry,
                  root, mounts, replayCaptured, errors >>

\* An error occurs later, elsewhere in the application.
AppError ==
  /\ status = "done"
  /\ Len(sentry) > 0
  /\ errors < MaxErrors
  /\ \E d \in Draws : CaptureError(d)
  /\ UNCHANGED << pc, status, router, store, productionTip, installed, sentry,
                  root, mounts, navigated >>

Next ==
  \/ SetProductionTip
  \/ UseNotifications
  \/ UseVModal
  \/ UseVueCookies
  \/ UseVueShortkey
  \/ SentryInit
  \/ NewVue
  \/ Mount
  \/ Throw
  \/ Navigate
  \/ AppError

Spec == Init /\ [][Next]_vars

(* --------------------------- derived notions -------------------------- *)

\* The four plugins, in the order of main.ts 24-27.
PluginOrder == << "Notifications", "VModal", "VueCookies", "VueShortkey" >>

Plugins == { PluginOrder[i] : i \in 1..Len(PluginOrder) }

\* The position of a plugin in PluginOrder.
OrderIndex(p) == CHOOSE i \in 1..Len(PluginOrder) : PluginOrder[i] = p

\* The plugins the registration calls issued so far have registered.
Registered == { installed[i].plugin : i \in 1..Len(installed) }

\* Every statement of the module body has had its effect, once.
BootstrapComplete ==
  /\ productionTip = FALSE
  /\ Len(installed) = Len(PluginOrder)
  /\ Registered = Plugins
  /\ Len(sentry) = 1
  /\ Len(root) = 1
  /\ Len(mounts) = 1

Digits == { "0", "1", "2", "3", "4", "5", "6", "7", "8", "9" }

Letters ==
  { "a", "b", "c", "d", "e", "f", "g", "h", "i", "j", "k", "l", "m",
    "n", "o", "p", "q", "r", "s", "t", "u", "v", "w", "x", "y", "z" }

DigitValue(c) ==
  CASE c = "0" -> 0 [] c = "1" -> 1 [] c = "2" -> 2 [] c = "3" -> 3
    [] c = "4" -> 4 [] c = "5" -> 5 [] c = "6" -> 6 [] c = "7" -> 7
    [] c = "8" -> 8 [] c = "9" -> 9

\* s is YYYYMMDD: eight digits, with a month of 01..12 and a day of 01..31.
IsDate8(s) ==
  /\ Len(s) = 8
  /\ \A i \in 1..8 : s[i] \in Digits
  /\ LET month == 10 * DigitValue(s[5]) + DigitValue(s[6])
         day   == 10 * DigitValue(s[7]) + DigitValue(s[8])
     IN  month \in 1..12 /\ day \in 1..31

\* s is a product name: letters, at least one.
IsProduct(s) == Len(s) > 0 /\ \A i \in 1..Len(s) : s[i] \in Letters

\* s is <product><YYYYMMDD>: the name, at once the date, and nothing else.
IsProductDate(s) ==
  /\ Len(s) > 8
  /\ IsProduct(SubSeq(s, 1, Len(s) - 8))
  /\ IsDate8(SubSeq(s, Len(s) - 7, Len(s)))

\* s is <product>@<YYYYMMDD>: the name, an '@', the date, and nothing else.
IsProductAtDate(s) ==
  /\ Len(s) > 9
  /\ IsProduct(SubSeq(s, 1, Len(s) - 9))
  /\ s[Len(s) - 8] = "@"
  /\ IsDate8(SubSeq(s, Len(s) - 7, Len(s)))

\* A rate is a fraction of the closed interval [0, 1].
InUnitInterval(rate) == rate.den > 0 /\ 0 <= rate.num /\ rate.num <= rate.den

(* ------------------------------- claims ------------------------------- *)

\* C1: the root view is never mounted more than once and only to '#app'; it is
\* mounted only when all four plugins are registered; and a bootstrap that
\* ran to its end has mounted exactly one root, exactly once.
C1_MountOnceAfterPlugins ==
  /\ Len(mounts) <= 1
  /\ \A i \in 1..Len(mounts) : mounts[i] = "#app"
  /\ Len(mounts) > 0 => (Plugins \subseteq Registered /\ Len(root) = 1)
  /\ status = "done" => (Len(mounts) = 1 /\ Len(root) = 1)

\* C1 witness: the bootstrap ran to its end and the root is mounted.
C1_Witness == status = "done" /\ Len(mounts) = 1 /\ Plugins \subseteq Registered

\* C2: the registration calls issued name no plugin twice, follow the order
\* Notifications, VModal, VueCookies, VueShortkey, give VModal the dialog
\* defaults record and the others no configuration; a bootstrap that ran to
\* its end has issued all four.
C2_RegistrationOrder ==
  /\ \A i, j \in 1..Len(installed) :
       i < j => OrderIndex(installed[i].plugin) < OrderIndex(installed[j].plugin)
  /\ \A i \in 1..Len(installed) :
       /\ installed[i].plugin \in Plugins
       /\ Len(installed[i].args) = IF installed[i].plugin = "VModal" THEN 1 ELSE 0
       /\ installed[i].plugin = "VModal" =>
            DOMAIN installed[i].args[1] = { "dynamicDefaults" }
  /\ status = "done" => Len(installed) = 4

\* C2 witness: all four registrations have been issued.
C2_Witness == Len(installed) = 4 /\ installed[4].plugin = "VueShortkey"

\* C3: a raise ends the bootstrap: the state is "failed", nothing is mounted,
\* no statement executes afterwards, no statement executes twice; and the
\* bootstrap ends only as "done" with every step's effect, or as "failed"
\* with nothing mounted.
C3_FailStop ==
  /\ [](status = "failed" => Len(mounts) = 0)
  /\ [](status = "done" => BootstrapComplete)
  /\ [](status = "running" => pc <= Len(Program))
  /\ [](Len(installed) <= 4 /\ Len(sentry) <= 1 /\ Len(root) <= 1 /\ Len(mounts) <= 1)
  /\ [][status = "failed" => UNCHANGED bootVars]_vars
  /\ [][pc' >= pc]_vars
  /\ [][status # "running" => status' = status]_vars

\* C3 witness: a statement raised after some registrations; nothing is mounted.
C3_Witness == status = "failed" /\ Len(installed) >= 2 /\ Len(mounts) = 0

\* C4: once the root is mounted nothing the bootstrap writes changes again;
\* the plugin registry and the telemetry configuration change only while the
\* bootstrap runs, and the telemetry client is configured at most once, and
\* exactly once when the root is mounted.
C4_MountIsTerminal ==
  /\ [][Len(mounts) > 0 => UNCHANGED bootVars]_vars
  /\ [][(installed' # installed \/ sentry' # sentry) => status = "running"]_vars
  /\ [](Len(sentry) <= 1)
  /\ [](Len(mounts) > 0 => (status = "done" /\ Len(sentry) = 1))

\* C4 witness: the mounted application has moved on after the mount.
C4_Witness == Len(mounts) = 1 /\ Len(navigated) > 0 /\ errors > 0

\* C5: the configuration given to the modal plugin holds, under the key
\* dynamicDefaults, exactly the seven keys with their literal values.
C5_DialogDefaults ==
  \A i \in 1..Len(installed) :
    installed[i].plugin = "VModal" =>
      LET d == installed[i].args[1].dynamicDefaults IN
        /\ DOMAIN d = { "adaptive", "classes", "height", "width", "resizable",
                        "scrollable", "styles" }
        /\ d.adaptive = TRUE
        /\ d.classes = "card"
        /\ d.height = "auto"
        /\ d.width = "800px"
        /\ d.resizable = FALSE
        /\ d.scrollable = TRUE
        /\ DOMAIN d.styles = { "max-height", "overflow-y" }
        /\ d.styles["max-height"] = "80vh"
        /\ d.styles["overflow-y"] = "auto"

\* C5 witness: the modal plugin has been registered.
C5_Witness == \E i \in 1..Len(installed) : installed[i].plugin = "VModal"

\* C6: the three sample rates given to the telemetry client lie in [0, 1].
C6_RatesInUnitInterval ==
  \A i \in 1..Len(sentry) :
    /\ InUnitInterval(sentry[i].tracesSampleRate)
    /\ InUnitInterval(sentry[i].replaysSessionSampleRate)
    /\ InUnitInterval(sentry[i].replaysOnErrorSampleRate)

\* C6 witness: the telemetry client has been configured.
C6_Witness == Len(sentry) = 1 /\ Len(root) = 0

\* C7 as stated: the release tag given to the telemetry client is the product
\* name, at once an eight-digit date, and nothing else.
C7_ReleaseIsProductDate ==
  \A i \in 1..Len(sentry) : IsProductDate(sentry[i].release)

\* C7 as amended: the release tag given to the telemetry client is the
\* product name, an '@', an eight-digit date, and nothing else.
C7_ReleaseIsProductAtDate ==
  \A i \in 1..Len(sentry) : IsProductAtDate(sentry[i].release)

\* C7 witness: the telemetry client holds a release tag.
C7_Witness == Len(sentry) = 1 /\ Len(sentry[1].release) > 0

\* C8: the session replay rate is 0 and the on-error replay rate is 1; a
\* session without an error is never selected for replay capture and a
\* session with an error always is.
C8_ReplayOnlyOnError ==
  Len(sentry) > 0 =>
    /\ sentry[1].replaysSessionSampleRate.num = 0
    /\ sentry[1].replaysOnErrorSampleRate.num = sentry[1].replaysOnErrorSampleRate.den
    /\ errors = 0 => ~replayCaptured
    /\ errors > 0 => replayCaptured

\* C8 witness: an error occurred in the running application's session.
C8_Witness == status = "done" /\ errors > 0 /\ replayCaptured

\* C9: the telemetry client is configured only after all four registrations,
\* and a root view exists, mounted or not, only with the client configured.
C9_TelemetryBetween ==
  /\ Len(sentry) > 0 => Plugins \subseteq Registered
  /\ Len(root) > 0 => Len(sentry) = 1
  /\ Len(mounts) > 0 => Len(sentry) = 1

\* C9 witness: the root exists, not yet mounted, with the client configured.
C9_Witness == Len(root) = 1 /\ Len(mounts) = 0 /\ Len(sentry) = 1

\* C10: the router of the route-change instrumentation and the router of
\* the root view are the one imported router, and every route change of the
\* mounted application is on the instrumented router.
C10_SameRouter ==
  /\ \A i \in 1..Len(sentry) : sentry[i].routingInstrumentation = router
  /\ \A i \in 1..Len(root) : root[i].router = router
  /\ \A i \in 1..Len(navigated) :
       /\ Len(sentry) > 0
       /\ navigated[i] = sentry[Len(sentry)].routingInstrumentation

\* C10 witness: the mounted application has changed route.
C10_Witness == Len(navigated) > 0 /\ Len(sentry) = 1

=============================================================================
